---- MODULE Spec2Model ----
(***************************************************************************)
(* Model of pyro/distributions/conjugate.py: the compound distributions    *)
(* BetaBinomial and GammaPoisson.                                          *)
(*                                                                         *)
(* A tensor is a record [shape, data]: shape is a sequence of dimension    *)
(* sizes, data a function from the index tuples of that shape to values.   *)
(* Concentrations, rates and counts are integers.  A log-density is kept   *)
(* exactly: the logarithm of a positive rational is the vector of the      *)
(* exponents of its prime factorisation, so that adding logarithms is      *)
(* adding vectors.                                                         *)
(***************************************************************************)
EXTENDS Integers, Sequences, FiniteSets, TLC

\* ---------------------------------------------------------------- bounds
\* Largest size of one tensor dimension.
MaxDim == 2
\* Concentrations and rates range over 1..MaxConc.
MaxConc == 2
\* total_count ranges over 0..MaxCount.
MaxCount == 2

\* ------------------------------------------------------- tensors (torch)
SeqMax(s) == IF s = <<>> THEN 1 ELSE CHOOSE m \in {s[i] : i \in 1..Len(s)} \cup {1} :
                 \A i \in 1..Len(s) : s[i] <= m

\* The index tuples of a tensor of the given shape.
Indices(shape) == {idx \in [1..Len(shape) -> 1..SeqMax(shape)] :
                      \A i \in 1..Len(shape) : idx[i] <= shape[i]}

RECURSIVE Numel(_)
Numel(shape) == IF shape = <<>> THEN 1 ELSE Head(shape) * Numel(Tail(shape))

\* Row-major position of an index tuple, counted from 0.
RECURSIVE LinearIndex(_, _)
LinearIndex(idx, shape) ==
    IF shape = <<>> THEN 0
    ELSE (Head(idx) - 1) * Numel(Tail(shape)) + LinearIndex(Tail(idx), Tail(shape))

\* The index of the element of a tensor of shape tshape that broadcasting
\* places at position idx of a larger shape (dimensions align from the right,
\* a dimension of size 1 repeats).
BroadcastIndex(idx, tshape) ==
    [j \in 1..Len(tshape) |->
        IF tshape[j] = 1 THEN 1 ELSE idx[j + (Len(idx) - Len(tshape))]]

\* Tensor.expand's precondition: shape s is a valid expansion target.
CanExpand(tshape, s) ==
    /\ Len(s) >= Len(tshape)
    /\ \A j \in 1..Len(tshape) :
          \/ tshape[j] = s[j + (Len(s) - Len(tshape))]
          \/ tshape[j] = 1

\* Tensor.expand(s) / Tensor.expand_as(other) with other.shape = s.
TensorExpand(t, s) ==
    [shape |-> s, data |-> [idx \in Indices(s) |-> t.data[BroadcastIndex(idx, t.shape)]]]

\* Size of dimension j, counted from the right, of a shape (1 when absent).
DimFromRight(shape, j) == IF j <= Len(shape) THEN shape[Len(shape) - j + 1] ELSE 1

Max2(a, b) == IF a >= b THEN a ELSE b

BroadcastShape(a, b) ==
    [i \in 1..Max2(Len(a), Len(b)) |->
        Max2(DimFromRight(a, Max2(Len(a), Len(b)) - i + 1),
             DimFromRight(b, Max2(Len(a), Len(b)) - i + 1))]

\* Elementwise binary operation with broadcasting.
Map2(Op(_, _), a, b) ==
    [shape |-> BroadcastShape(a.shape, b.shape),
     data  |-> [idx \in Indices(BroadcastShape(a.shape, b.shape)) |->
                   Op(a.data[BroadcastIndex(idx, a.shape)],
                      b.data[BroadcastIndex(idx, b.shape)])]]

Map1(Op(_), a) == [shape |-> a.shape, data |-> [idx \in Indices(a.shape) |-> Op(a.data[idx])]]

Plus(x, y) == x + y
Minus(x, y) == x - y
Times(x, y) == x * y

TAdd(a, b) == Map2(Plus, a, b)
TSub(a, b) == Map2(Minus, a, b)
TMul(a, b) == Map2(Times, a, b)

Scalar(v) == [shape |-> <<>>, data |-> [idx \in {<<>>} |-> v]]

TensorValues(t) == {t.data[idx] : idx \in Indices(t.shape)}

\* Tensor.max() and Tensor.min() over all elements.
TensorMax(t) == CHOOSE m \in TensorValues(t) : \A v \in TensorValues(t) : v <= m
TensorMin(t) == CHOOSE m \in TensorValues(t) : \A v \in TensorValues(t) : m <= v

\* torch.distributions.utils.broadcast_all for three and for two arguments.
broadcast_all3(a, b, c) ==
    LET s == BroadcastShape(BroadcastShape(a.shape, b.shape), c.shape)
    IN  <<TensorExpand(a, s), TensorExpand(b, s), TensorExpand(c, s)>>

broadcast_all2(a, b) ==
    LET s == BroadcastShape(a.shape, b.shape)
    IN  <<TensorExpand(a, s), TensorExpand(b, s)>>

\* reduce(mul, seq) of six.moves/functools without an initial value: the product
\* of the items, and a TypeError on an empty sequence.
NoneValue == [none |-> TRUE]

Returned(v) == [raised |-> "none", value |-> v]
Raised(e) == [raised |-> e, value |-> NoneValue]

reduce_mul(seq) == IF seq = <<>> THEN Raised("TypeError") ELSE Returned(Numel(seq))

\* Python's seq[:n].
SlicePrefix(seq, n) ==
    IF n >= 0 THEN SubSeq(seq, 1, IF n <= Len(seq) THEN n ELSE Len(seq))
    ELSE SubSeq(seq, 1, IF Len(seq) + n >= 0 THEN Len(seq) + n ELSE 0)

\* Python's seq[n:] for 0 <= n <= len(seq).
SliceSuffix(seq, n) == SubSeq(seq, n + 1, Len(seq))

RECURSIVE SumOver(_, _, _)
\* The sum of obs.data[lead \o idx] over the index tuples lead in S.
SumOver(S, obs, idx) ==
    IF S = {} THEN 0
    ELSE LET lead == CHOOSE l \in S : TRUE
         IN  obs.data[lead \o idx] + SumOver(S \ {lead}, obs, idx)

\* pyro.distributions.util.sum_leftmost(value, dim) as conjugate.py calls it,
\* with dim = -num_dims: the sum of value over its leading dimensions, all
\* but the num_dims trailing ones.
sum_leftmost(value, dim) ==
    LET keep  == SliceSuffix(value.shape, Len(value.shape) + dim)
        lead  == SlicePrefix(value.shape, Len(value.shape) + dim)
    IN  [shape |-> keep,
         data  |-> [idx \in Indices(keep) |-> SumOver(Indices(lead), value, idx)]]

\* ------------------------------------------------------ exact logarithms
\* Every integer whose logarithm a density takes lies in 1..MaxArg.
MaxArg == MaxCount + 2 * MaxConc + 1

IsPrime(p) == p >= 2 /\ \A d \in 2..(p - 1) : p % d /= 0

PrimeBase == {p \in 2..MaxArg : IsPrime(p)}

RECURSIVE Exponent(_, _)
Exponent(p, m) == IF m % p = 0 THEN 1 + Exponent(p, m \div p) ELSE 0

\* A density value: the logarithm of a positive rational, or a number the
\* model does not track (an infinity, a NaN, an irrational real).
LogRational(e) == [kind |-> "log_rational", e |-> e]
Untracked == [kind |-> "untracked", e |-> [p \in PrimeBase |-> 0]]

\* log(m) for an integer m.
LogInt(m) == IF m >= 1 THEN LogRational([p \in PrimeBase |-> Exponent(p, m)]) ELSE Untracked

LAdd(x, y) ==
    IF x.kind = "log_rational" /\ y.kind = "log_rational"
    THEN LogRational([p \in PrimeBase |-> x.e[p] + y.e[p]]) ELSE Untracked

LNeg(x) ==
    IF x.kind = "log_rational" THEN LogRational([p \in PrimeBase |-> 0 - x.e[p]]) ELSE Untracked

LSub(x, y) == LAdd(x, LNeg(y))

\* k * x for an integer k.
LScale(k, x) ==
    IF x.kind = "log_rational" THEN LogRational([p \in PrimeBase |-> k * x.e[p]]) ELSE Untracked

RECURSIVE LogFactorial(_)
\* log((m)!) as the sum log 1 + ... + log m.
LogFactorial(m) == IF m <= 1 THEN LogInt(1) ELSE LAdd(LogInt(m), LogFactorial(m - 1))

\* Real numbers that may be fractional are kept in halves: the integer h
\* stands for h/2.
Halves(i) == 2 * i
IsWhole(h) == h % 2 = 0
Whole(h) == h \div 2

\* torch.lgamma on a number in halves: log((x-1)!) at an integer x >= 1,
\* infinite at an integer x <= 0, an untracked real at a fraction.
lgamma(h) == IF IsWhole(h) /\ Whole(h) >= 1 THEN LogFactorial(Whole(h) - 1) ELSE Untracked

\* Tensor.log() on a number in halves.
log(h) == IF IsWhole(h) THEN LogInt(Whole(h)) ELSE Untracked

\* h * x for a number h in halves.
LScaleH(h, x) == IF IsWhole(h) THEN LScale(Whole(h), x) ELSE Untracked

TLAdd(a, b) == Map2(LAdd, a, b)
TLSub(a, b) == Map2(LSub, a, b)
TLScaleH(a, b) == Map2(LScaleH, a, b)
Tlgamma(a) == Map1(lgamma, a)
Tlog(a) == Map1(log, a)
TLNeg(a) == Map1(LNeg, a)
THalves(a) == Map1(Halves, a)

\* _log_beta with the sign of its last term slipped.
_log_beta_sign_slip(x, y) == TLAdd(TLAdd(Tlgamma(x), Tlgamma(y)), Tlgamma(TAdd(x, y)))

_log_beta(x, y) == TLSub(TLAdd(Tlgamma(x), Tlgamma(y)), Tlgamma(TAdd(x, y)))

\* ----------------------------------------- torch.distributions Beta, Gamma
\* Beta(concentration1, concentration0) / Gamma(concentration, rate) built
\* from tensors of one shape: the batch shape is that shape.
Beta(concentration1, concentration0) ==
    [concentration1 |-> concentration1, concentration0 |-> concentration0,
     _batch_shape |-> concentration1.shape]

Gamma(concentration, rate) ==
    [concentration |-> concentration, rate |-> rate, _batch_shape |-> concentration.shape]

\* Beta.expand / Gamma.expand: every parameter expanded to batch_shape.
Beta_expand(b, batch_shape) ==
    [concentration1 |-> TensorExpand(b.concentration1, batch_shape),
     concentration0 |-> TensorExpand(b.concentration0, batch_shape),
     _batch_shape |-> batch_shape]

Gamma_expand(g, batch_shape) ==
    [concentration |-> TensorExpand(g.concentration, batch_shape),
     rate |-> TensorExpand(g.rate, batch_shape),
     _batch_shape |-> batch_shape]

AllPositive(t) == \A v \in TensorValues(t) : v > 0

\* Beta(c1, c0, validate_args=flag): with validation a parameter that is not
\* positive is a ValueError.
Beta_validated(concentration1, concentration0, validate_args) ==
    IF validate_args /\ ~(AllPositive(concentration1) /\ AllPositive(concentration0))
    THEN Raised("ValueError")
    ELSE Returned(Beta(concentration1, concentration0))

\* ---------------------------------------------------------- BetaBinomial
BetaBinomial_init(concentration1, concentration0, total_count, validate_args) ==
    LET b == broadcast_all3(concentration1, concentration0, total_count)
    IN  [cls |-> "BetaBinomial",
         _beta |-> Beta(b[1], b[2]),
         _unexpanded_params |->
             [concentration1 |-> b[1], concentration0 |-> b[2], total_count |-> b[3]],
         total_count |-> b[3],
         _batch_shape |-> Beta(b[1], b[2])._batch_shape,
         _validate_args |-> validate_args]

BetaBinomial_concentration1(self) == self._beta.concentration1
BetaBinomial_concentration0(self) == self._beta.concentration0

\* expand that rebuilds _unexpanded_params from the expanded parameters
\* instead of carrying the constructed ones over.
BetaBinomial_expand_recomputes_params(self, batch_shape) ==
    IF ~CanExpand(self._beta._batch_shape, batch_shape) THEN Raised("RuntimeError")
    ELSE LET new_beta == Beta_expand(self._beta, batch_shape)
             new_total_count == TensorExpand(self.total_count, new_beta.concentration0.shape)
         IN  Returned([cls |-> "BetaBinomial",
                       _beta |-> new_beta,
                       _unexpanded_params |->
                           [concentration1 |-> new_beta.concentration1,
                            concentration0 |-> new_beta.concentration0,
                            total_count |-> new_total_count],
                       total_count |-> new_total_count,
                       _batch_shape |-> batch_shape,
                       _validate_args |-> self._validate_args])

\* expand that leaves total_count as it was instead of expanding it.
BetaBinomial_expand_keeps_total_count(self, batch_shape) ==
    IF ~CanExpand(self._beta._batch_shape, batch_shape) THEN Raised("RuntimeError")
    ELSE Returned([cls |-> "BetaBinomial",
                   _beta |-> Beta_expand(self._beta, batch_shape),
                   _unexpanded_params |-> self._unexpanded_params,
                   total_count |-> self.total_count,
                   _batch_shape |-> batch_shape,
                   _validate_args |-> self._validate_args])

BetaBinomial_expand(self, batch_shape) ==
    IF ~CanExpand(self._beta._batch_shape, batch_shape) THEN Raised("RuntimeError")
    ELSE LET new_beta == Beta_expand(self._beta, batch_shape)
         IN  Returned([cls |-> "BetaBinomial",
                       _beta |-> new_beta,
                       _unexpanded_params |-> self._unexpanded_params,
                       total_count |->
                           TensorExpand(self.total_count, new_beta.concentration0.shape),
                       _batch_shape |-> batch_shape,
                       _validate_args |-> self._validate_args])

\* num_obs taken over the first num_dims dimensions of obs instead of over
\* all but the last num_dims.
BetaBinomial_num_obs_first_dims(obs, num_dims) == reduce_mul(SlicePrefix(obs.shape, num_dims))

\* num_obs of BetaBinomial._posterior_latent_dist.
BetaBinomial_num_obs(obs, num_dims) ==
    reduce_mul(SlicePrefix(obs.shape, Len(obs.shape) - num_dims))

BetaBinomial_posterior_latent_dist(self, obs) ==
    LET concentration1 == self._unexpanded_params.concentration1
        concentration0 == self._unexpanded_params.concentration0
        total_count == self._unexpanded_params.total_count
        num_dims == Len(concentration1.shape)
        num_obs == BetaBinomial_num_obs(obs, num_dims)
        summed_obs == sum_leftmost(obs, 0 - num_dims)
    IN  IF num_obs.raised /= "none" THEN Raised(num_obs.raised)
        ELSE Beta_validated(
                 TAdd(concentration1, summed_obs),
                 TSub(TAdd(TMul(Scalar(num_obs.value), total_count), concentration0),
                      summed_obs),
                 self._validate_args)

\* Binomial.support, integer_interval(0, total_count), checked on a value in
\* halves against a count.
InIntegerInterval(h, n) == IsWhole(h) /\ 0 <= h /\ h <= Halves(n)

\* constraints.nonnegative_integer checked on a value in halves.
IsNonnegativeInteger(h) == IsWhole(h) /\ 0 <= h

\* Distribution._validate_sample of BetaBinomial: support.check(value).all().
BetaBinomial_validate_sample(self, value) ==
    LET ok == Map2(InIntegerInterval, value, self.total_count)
    IN  \A v \in TensorValues(ok) : v

BetaBinomial_log_prob(self, value) ==
    IF self._validate_args /\ ~BetaBinomial_validate_sample(self, value)
    THEN Raised("ValueError")
    ELSE LET one == Scalar(Halves(1))
             total_count == THalves(self.total_count)
             concentration1 == THalves(BetaBinomial_concentration1(self))
             concentration0 == THalves(BetaBinomial_concentration0(self))
             log_factorial_n == Tlgamma(TAdd(total_count, one))
             log_factorial_k == Tlgamma(TAdd(value, one))
             log_factorial_nmk == Tlgamma(TAdd(TSub(total_count, value), one))
         IN  Returned(
               TLSub(TLAdd(TLSub(TLSub(log_factorial_n, log_factorial_k), log_factorial_nmk),
                           _log_beta(TAdd(value, concentration1),
                                     TAdd(TSub(total_count, value), concentration0))),
                     _log_beta(concentration0, concentration1)))

\* torch.arange(n): the integers 0..n-1.
arange(n) == [shape |-> <<n>>, data |-> [idx \in Indices(<<n>>) |-> idx[1] - 1]]

\* Tensor.view(shape): the same elements in row-major order under a new shape.
TensorView(t, shape) ==
    [shape |-> shape,
     data  |-> [idx \in Indices(shape) |->
                   t.data[CHOOSE i \in Indices(t.shape) :
                              LinearIndex(i, t.shape) = LinearIndex(idx, shape)]]]

Ones(n) == [i \in 1..n |-> 1]

\* enumerate_support without the check that total_count is homogeneous.
BetaBinomial_enumerate_support_unchecked(self, expand) ==
    LET total_count == TensorMax(self.total_count)
        values == TensorView(arange(1 + total_count),
                             <<1 + total_count>> \o Ones(Len(self._batch_shape)))
    IN  IF expand
        THEN Returned(TensorExpand(values, <<1 + total_count>> \o self._batch_shape))
        ELSE Returned(values)

\* enumerate_support that returns the flat range when expand is false.
BetaBinomial_enumerate_support_flat(self, expand) ==
    LET total_count == TensorMax(self.total_count)
    IN  IF ~(TensorMin(self.total_count) = total_count)
        THEN Raised("NotImplementedError")
        ELSE IF expand
             THEN Returned(TensorExpand(
                      TensorView(arange(1 + total_count),
                                 <<1 + total_count>> \o Ones(Len(self._batch_shape))),
                      <<1 + total_count>> \o self._batch_shape))
             ELSE Returned(arange(1 + total_count))

BetaBinomial_enumerate_support(self, expand) ==
    LET total_count == TensorMax(self.total_count)
    IN  IF ~(TensorMin(self.total_count) = total_count)
        THEN Raised("NotImplementedError")
        ELSE LET values == TensorView(arange(1 + total_count),
                                      <<1 + total_count>> \o Ones(Len(self._batch_shape)))
             IN  IF expand
                 THEN Returned(TensorExpand(values, <<1 + total_count>> \o self._batch_shape))
                 ELSE Returned(values)

\* ---------------------------------------------------------- GammaPoisson
GammaPoisson_init(concentration, rate, validate_args) ==
    LET b == broadcast_all2(concentration, rate)
    IN  [cls |-> "GammaPoisson",
         _gamma |-> Gamma(b[1], b[2]),
         _unexpanded_params |-> [concentration |-> b[1], rate |-> b[2]],
         _batch_shape |-> Gamma(b[1], b[2])._batch_shape,
         _validate_args |-> validate_args]

GammaPoisson_concentration(self) == self._gamma.concentration
GammaPoisson_rate(self) == self._gamma.rate

\* expand that leaves validation switched off on the new instance.
GammaPoisson_expand_drops_validation(self, batch_shape) ==
    IF ~CanExpand(self._gamma._batch_shape, batch_shape) THEN Raised("RuntimeError")
    ELSE Returned([cls |-> "GammaPoisson",
                   _gamma |-> Gamma_expand(self._gamma, batch_shape),
                   _unexpanded_params |-> self._unexpanded_params,
                   _batch_shape |-> batch_shape,
                   _validate_args |-> FALSE])

\* expand that keeps the prior as it was instead of expanding it.
GammaPoisson_expand_keeps_prior(self, batch_shape) ==
    IF ~CanExpand(self._gamma._batch_shape, batch_shape) THEN Raised("RuntimeError")
    ELSE Returned([cls |-> "GammaPoisson",
                   _gamma |-> self._gamma,
                   _unexpanded_params |-> self._unexpanded_params,
                   _batch_shape |-> batch_shape,
                   _validate_args |-> self._validate_args])

GammaPoisson_expand(self, batch_shape) ==
    IF ~CanExpand(self._gamma._batch_shape, batch_shape) THEN Raised("RuntimeError")
    ELSE Returned([cls |-> "GammaPoisson",
                   _gamma |-> Gamma_expand(self._gamma, batch_shape),
                   _unexpanded_params |-> self._unexpanded_params,
                   _batch_shape |-> batch_shape,
                   _validate_args |-> self._validate_args])

\* num_obs of GammaPoisson._posterior_latent_dist.
GammaPoisson_num_obs(obs, num_dims) == reduce_mul(SlicePrefix(obs.shape, num_dims))

GammaPoisson_posterior_latent_dist(self, obs) ==
    LET concentration == self._unexpanded_params.concentration
        rate == self._unexpanded_params.rate
        num_dims == Len(concentration.shape)
        num_obs == GammaPoisson_num_obs(obs, num_dims)
        summed_obs == sum_leftmost(obs, 0 - num_dims)
    IN  IF num_obs.raised /= "none" THEN Raised(num_obs.raised)
        ELSE Returned(Gamma(TAdd(concentration, summed_obs),
                            TAdd(rate, Scalar(num_obs.value))))

\* Distribution._validate_sample of GammaPoisson.
GammaPoisson_validate_sample(self, value) ==
    \A v \in TensorValues(TensorExpand(value, BroadcastShape(value.shape, self._batch_shape))) :
        IsNonnegativeInteger(v)

GammaPoisson_log_prob(self, value) ==
    IF self._validate_args /\ ~GammaPoisson_validate_sample(self, value)
    THEN Raised("ValueError")
    ELSE LET one == Scalar(Halves(1))
             concentration == THalves(GammaPoisson_concentration(self))
             rate == THalves(GammaPoisson_rate(self))
             post_value == TAdd(concentration, value)
         IN  Returned(
               TLSub(TLAdd(TLSub(TLNeg(_log_beta(concentration, TAdd(value, one))),
                                 Tlog(post_value)),
                           TLScaleH(concentration, Tlog(rate))),
                     TLScaleH(post_value, Tlog(TAdd(one, rate)))))

\* ---------------------------------------------------------------- inputs
\* A tensor of the given shape whose elements run through lo..hi, starting at
\* base and advancing by step per element in row-major order.
Ramp(shape, base, step, lo, hi) ==
    [shape |-> shape,
     data  |-> [idx \in Indices(shape) |->
                   lo + ((base - lo + step * LinearIndex(idx, shape)) % (hi - lo + 1))]]

Steps == {0, 1}

\* Shapes of the constructor's arguments (concentration1 / concentration,
\* concentration0 / rate, total_count): all scalar, mixed shapes that broadcast
\* to a vector, all vectors.
ArgShapes == {<< <<>>, <<>>, <<>> >>,
              << <<MaxDim>>, <<>>, <<1>> >>,
              << <<1>>, <<MaxDim>>, <<>> >>,
              << <<>>, <<1>>, <<MaxDim>> >>,
              << <<MaxDim>>, <<MaxDim>>, <<MaxDim>> >>}

\* Targets of expand, valid or not for a given instance.
ExpandShapes == {<<>>, <<1>>, <<MaxDim>>, <<1, MaxDim>>, <<MaxDim, MaxDim>>}

\* Leading observation dimensions of the obs passed to posterior_latent_dist.
LeadShapes == {<<>>, <<MaxDim>>, <<1, MaxDim>>, <<MaxDim, MaxDim>>}

\* Observations: counts in 0..MaxCount, trailing dimensions those of the
\* unexpanded parameters.
ObsTensors(param_shape) ==
    {Ramp(lead \o param_shape, base, 1, 0, MaxCount) : lead \in LeadShapes, base \in 0..1}

\* Values passed to log_prob, in halves: -1, 1/2 and 0..MaxCount+1, as a
\* scalar or a tensor of the batch shape that advances by 1 per element.
ValueTensors(batch_shape) ==
    {Scalar(h) : h \in {0 - 2, 1} \cup {Halves(k) : k \in 0..(MaxCount + 1)}}
    \cup {[shape |-> batch_shape,
           data |-> [idx \in Indices(batch_shape) |->
                        h + Halves(LinearIndex(idx, batch_shape) % 2)]] :
            h \in {0 - 2, 1} \cup {Halves(k) : k \in 0..MaxCount}}

\* ----------------------------------------------------------------- state
VARIABLES
    origin,   \* the instance as constructed
    inst,     \* an instance derived from origin by zero or more expand calls
    ret       \* the last call on inst: [op, arg, out]

vars == <<origin, inst, ret>>

Call(op, arg, out) == [op |-> op, arg |-> arg, out |-> out]

Init ==
    /\ \E shapes \in ArgShapes, validate_args \in BOOLEAN, a \in 1..MaxConc, b \in 1..MaxConc :
          \/ \E n \in 0..MaxCount, step \in Steps :
                origin = BetaBinomial_init(Ramp(shapes[1], a, 1, 1, MaxConc),
                                           Ramp(shapes[2], b, 0, 1, MaxConc),
                                           Ramp(shapes[3], n, step, 0, MaxCount),
                                           validate_args)
          \/ origin = GammaPoisson_init(Ramp(shapes[1], a, 1, 1, MaxConc),
                                        Ramp(shapes[2], b, 1, 1, MaxConc),
                                        validate_args)
    /\ inst = origin
    /\ ret = Call("construct", NoneValue, Returned(NoneValue))

\* Every operation is a pure function of the instance and its argument, so
\* the caller issues each call on an instance as it was obtained, from the
\* constructor or from expand: no call reads the result of an earlier query.
Ready == ret.op \in {"construct", "expand"}

\* inst.expand(batch_shape): on success the derived instance is the one the
\* following calls are made on; a failed call leaves every instance as it was.
BetaBinomialExpand ==
    /\ Ready
    /\ inst.cls = "BetaBinomial"
    /\ \E batch_shape \in ExpandShapes :
          LET out == BetaBinomial_expand(inst, batch_shape)
          IN  /\ inst' = IF out.raised = "none" THEN out.value ELSE inst
              /\ ret' = Call("expand", batch_shape, out)
    /\ UNCHANGED origin

GammaPoissonExpand ==
    /\ Ready
    /\ inst.cls = "GammaPoisson"
    /\ \E batch_shape \in ExpandShapes :
          LET out == GammaPoisson_expand(inst, batch_shape)
          IN  /\ inst' = IF out.raised = "none" THEN out.value ELSE inst
              /\ ret' = Call("expand", batch_shape, out)
    /\ UNCHANGED origin

BetaBinomialPosteriorLatentDist ==
    /\ Ready
    /\ inst.cls = "BetaBinomial"
    /\ \E obs \in ObsTensors(inst._unexpanded_params.concentration1.shape) :
          ret' = Call("posterior_latent_dist", obs, BetaBinomial_posterior_latent_dist(inst, obs))
    /\ UNCHANGED <<origin, inst>>

GammaPoissonPosteriorLatentDist ==
    /\ Ready
    /\ inst.cls = "GammaPoisson"
    /\ \E obs \in ObsTensors(inst._unexpanded_params.concentration.shape) :
          ret' = Call("posterior_latent_dist", obs, GammaPoisson_posterior_latent_dist(inst, obs))
    /\ UNCHANGED <<origin, inst>>

BetaBinomialLogProb ==
    /\ Ready
    /\ inst.cls = "BetaBinomial"
    /\ \E value \in ValueTensors(inst._batch_shape) :
          ret' = Call("log_prob", value, BetaBinomial_log_prob(inst, value))
    /\ UNCHANGED <<origin, inst>>

GammaPoissonLogProb ==
    /\ Ready
    /\ inst.cls = "GammaPoisson"
    /\ \E value \in ValueTensors(inst._batch_shape) :
          ret' = Call("log_prob", value, GammaPoisson_log_prob(inst, value))
    /\ UNCHANGED <<origin, inst>>

BetaBinomialEnumerateSupport ==
    /\ Ready
    /\ inst.cls = "BetaBinomial"
    /\ \E expand \in BOOLEAN :
          ret' = Call("enumerate_support", [expand |-> expand],
                      BetaBinomial_enumerate_support(inst, expand))
    /\ UNCHANGED <<origin, inst>>

Next ==
    \/ BetaBinomialExpand
    \/ GammaPoissonExpand
    \/ BetaBinomialPosteriorLatentDist
    \/ GammaPoissonPosteriorLatentDist
    \/ BetaBinomialLogProb
    \/ GammaPoissonLogProb
    \/ BetaBinomialEnumerateSupport

Spec == Init /\ [][Next]_vars

\* Method dispatch on the instance's class.
posterior_latent_dist(self, obs) ==
    IF self.cls = "BetaBinomial" THEN BetaBinomial_posterior_latent_dist(self, obs)
    ELSE GammaPoisson_posterior_latent_dist(self, obs)

log_prob(self, value) ==
    IF self.cls = "BetaBinomial" THEN BetaBinomial_log_prob(self, value)
    ELSE GammaPoisson_log_prob(self, value)

\* ------------------------------------------------- notions the claims use
\* The leading (observation) dimensions of obs: those before the trailing
\* dimensions that carry the unexpanded parameters' shape.
LeadShape(obs, param_shape) == SubSeq(obs.shape, 1, Len(obs.shape) - Len(param_shape))

\* n_obs: the number of observations per batch position.
NObs(obs, param_shape) == Cardinality(Indices(LeadShape(obs, param_shape)))

\* Sigma obs at a batch position: the sum over the leading dimensions.
SigmaObs(obs, param_shape, idx) == SumOver(Indices(LeadShape(obs, param_shape)), obs, idx)

\* Beta(alpha + Sigma obs, n_obs * total_count + beta - Sigma obs), parameter
\* by parameter.
BetaPosteriorConcentration1(p, obs) ==
    [shape |-> p.concentration1.shape,
     data  |-> [idx \in Indices(p.concentration1.shape) |->
                   p.concentration1.data[idx] + SigmaObs(obs, p.concentration1.shape, idx)]]

BetaPosteriorConcentration0(p, obs) ==
    [shape |-> p.concentration1.shape,
     data  |-> [idx \in Indices(p.concentration1.shape) |->
                   NObs(obs, p.concentration1.shape) * p.total_count.data[idx]
                   + p.concentration0.data[idx]
                   - SigmaObs(obs, p.concentration1.shape, idx)]]

\* Every observation is a count the distribution can produce.
ObsInSupport(obs, total_count) ==
    \A idx \in Indices(obs.shape) :
        /\ 0 <= obs.data[idx]
        /\ obs.data[idx] <= total_count.data[BroadcastIndex(idx, total_count.shape)]

IsPosteriorCall(cls) == inst.cls = cls /\ ret.op = "posterior_latent_dist"

C2_GammaPosteriorClosedForm ==
    IsPosteriorCall("GammaPoisson")
    => LET p == origin._unexpanded_params
       IN  /\ ret.out.raised = "none"
           /\ ret.out.value.concentration =
                 [shape |-> p.concentration.shape,
                  data  |-> [idx \in Indices(p.concentration.shape) |->
                                p.concentration.data[idx]
                                + SigmaObs(ret.arg, p.concentration.shape, idx)]]
           /\ ret.out.value.rate =
                 [shape |-> p.concentration.shape,
                  data  |-> [idx \in Indices(p.concentration.shape) |->
                                p.rate.data[idx] + NObs(ret.arg, p.concentration.shape)]]

\* C3: a single observation, an obs with exactly the shape of the unexpanded
\* parameters, counts as n_obs = 1: the call succeeds and returns
\* Beta(concentration1 + obs, total_count + concentration0 - obs).
C3_SingleObservation ==
    (IsPosteriorCall("BetaBinomial")
       /\ ret.arg.shape = origin._unexpanded_params.concentration1.shape
       /\ ObsInSupport(ret.arg, origin._unexpanded_params.total_count))
    => LET p == origin._unexpanded_params
       IN  /\ ret.out.raised = "none"
           /\ ret.out.value.concentration1 = TAdd(p.concentration1, ret.arg)
           /\ ret.out.value.concentration0 =
                 TSub(TAdd(p.total_count, p.concentration0), ret.arg)

\* inst is an instance that expand derived: its batch shape is no longer the
\* one it was constructed with.
Expanded == inst._batch_shape /= origin._batch_shape

\* C4: through any sequence of successful expand calls the derived instance
\* holds the unexpanded_params of the constructed instance, names, values and
\* shapes, and posterior_latent_dist(obs) on it returns what the call on the
\* constructed instance returns, for BetaBinomial and for GammaPoisson.
C4_UnexpandedParamsShared ==
    /\ inst._unexpanded_params = origin._unexpanded_params
    /\ origin._unexpanded_params =
          IF origin.cls = "BetaBinomial"
          THEN [concentration1 |-> origin._beta.concentration1,
                concentration0 |-> origin._beta.concentration0,
                total_count |-> origin.total_count]
          ELSE [concentration |-> origin._gamma.concentration, rate |-> origin._gamma.rate]
    /\ ret.op = "posterior_latent_dist" => ret.out = posterior_latent_dist(origin, ret.arg)

\* C4 witness: a posterior returned by an expanded instance.
C4_Witness ==
    /\ Expanded
    /\ ret.op = "posterior_latent_dist"
    /\ ret.out.raised = "none"

\* The parameter tensors an instance exposes.
ParameterTensors(self) ==
    IF self.cls = "BetaBinomial"
    THEN {BetaBinomial_concentration1(self), BetaBinomial_concentration0(self), self.total_count}
    ELSE {GammaPoisson_concentration(self), GammaPoisson_rate(self)}

\* C5: in every reachable instance, constructed from broadcastable parameters
\* or derived by expand, concentration1, concentration0 and total_count
\* (concentration and rate for GammaPoisson) have exactly the shape batch_shape,
\* and after a successful expand(s) that shape is s.
C5_ParametersShareBatchShape ==
    /\ \A t \in ParameterTensors(origin) : t.shape = origin._batch_shape
    /\ \A t \in ParameterTensors(inst) : t.shape = inst._batch_shape
    /\ (ret.op = "expand" /\ ret.out.raised = "none")
          => /\ inst = ret.out.value
             /\ inst._batch_shape = ret.arg

\* C5 witness: a BetaBinomial with a vector batch and an inhomogeneous
\* total_count, expanded to a shape of rank 2.
C5_Witness ==
    /\ inst.cls = "BetaBinomial"
    /\ ret.op = "expand"
    /\ ret.out.raised = "none"
    /\ Len(origin._batch_shape) = 1
    /\ Len(inst._batch_shape) = 2
    /\ Cardinality(TensorValues(inst.total_count)) > 1

Homogeneous(t) == \A v \in TensorValues(t), w \in TensorValues(t) : v = w

\* C6: enumerate_support on a batch whose total_count entries all equal n
\* returns, along the new leading dimension, exactly 0, 1, ..., n in ascending
\* order at every batch position; when two entries differ the call fails with
\* an unsupported-operation error and returns nothing.
C6_EnumerateSupportValues ==
    ret.op = "enumerate_support"
    => IF Homogeneous(inst.total_count)
       THEN /\ ret.out.raised = "none"
            /\ ret.out.value.shape[1] = 1 + TensorMax(inst.total_count)
            /\ \A idx \in Indices(ret.out.value.shape) :
                  ret.out.value.data[idx] = idx[1] - 1
       ELSE /\ ret.out.raised = "NotImplementedError"
            /\ ret.out.value = NoneValue

\* C6 witness: enumerate_support refused on an inhomogeneous total_count.
C6_Witness ==
    /\ ret.op = "enumerate_support"
    /\ ~Homogeneous(inst.total_count)
    /\ ret.out.raised = "NotImplementedError"

\* C6, the other case reached as well: a support of more than one value
\* enumerated over a batch of more than one position.
C6_WitnessEnumerated ==
    /\ ret.op = "enumerate_support"
    /\ ret.out.raised = "none"
    /\ TensorMax(inst.total_count) >= 1
    /\ Numel(inst._batch_shape) > 1

\* C7 as stated: the returned array has shape (total_count+1,) + batch_shape
\* when expand is true and shape (total_count+1,) when expand is false, for
\* every batch_shape.
C7_ShapeAsStated ==
    (ret.op = "enumerate_support" /\ ret.out.raised = "none")
    => ret.out.value.shape =
          IF ret.arg.expand
          THEN <<1 + TensorMax(inst.total_count)>> \o inst._batch_shape
          ELSE <<1 + TensorMax(inst.total_count)>>

\* C7 amended: the returned array has shape (total_count+1,) + batch_shape
\* when expand is true, and (total_count+1,) followed by one dimension of size
\* 1 per batch dimension when expand is false.
C7_ShapeKeepsBatchRank ==
    (ret.op = "enumerate_support" /\ ret.out.raised = "none")
    => ret.out.value.shape =
          IF ret.arg.expand
          THEN <<1 + TensorMax(inst.total_count)>> \o inst._batch_shape
          ELSE <<1 + TensorMax(inst.total_count)>> \o Ones(Len(inst._batch_shape))

\* C7 witness: an unexpanded enumeration over a batch shape of rank 2.
C7_Witness ==
    /\ ret.op = "enumerate_support"
    /\ ret.out.raised = "none"
    /\ ~ret.arg.expand
    /\ Len(inst._batch_shape) = 2
    /\ Len(ret.out.value.shape) = 3

\* The value and the constructed instance's total_count met at position idx
\* of a log_prob result.
ValueAt(value, idx) == value.data[BroadcastIndex(idx, value.shape)]
OriginCountAt(idx) == origin.total_count.data[BroadcastIndex(idx, origin.total_count.shape)]

LogProbShape == BroadcastShape(ret.arg.shape, inst._batch_shape)

\* Some element of the value passed to log_prob lies outside the support:
\* negative, fractional or, for BetaBinomial, greater than total_count.
OutsideSupport ==
    \E idx \in Indices(LogProbShape) :
        \/ ValueAt(ret.arg, idx) < 0
        \/ ~IsWhole(ValueAt(ret.arg, idx))
        \/ /\ inst.cls = "BetaBinomial"
           /\ Whole(ValueAt(ret.arg, idx)) > OriginCountAt(idx)

\* C8: log_prob validation follows the validate_args flag of the constructed
\* instance through any sequence of expand calls: with validation enabled a
\* value outside the support raises a validation error and no density is
\* returned; with validation disabled log_prob never raises and returns a
\* number at every position.
C8_ValidationFollowsOrigin ==
    ret.op = "log_prob"
    => /\ (origin._validate_args /\ OutsideSupport)
             => (ret.out.raised = "ValueError" /\ ret.out.value = NoneValue)
       /\ ~origin._validate_args
             => /\ ret.out.raised = "none"
                /\ ret.out.value.shape = LogProbShape
                /\ \A idx \in Indices(LogProbShape) :
                      ret.out.value.data[idx].kind \in {"log_rational", "untracked"}

\* C8 witness: an expanded instance whose origin validates rejects a value
\* outside the support.
C8_Witness ==
    /\ Expanded
    /\ origin._validate_args
    /\ ret.op = "log_prob"
    /\ OutsideSupport
    /\ ret.out.raised = "ValueError"

\* C8, the other case reached as well: an expanded instance whose origin does
\* not validate returns a density for a value outside the support.
C8_WitnessUnvalidated ==
    /\ Expanded
    /\ ~origin._validate_args
    /\ ret.op = "log_prob"
    /\ OutsideSupport
    /\ ret.out.raised = "none"

RECURSIVE Factorial(_)
Factorial(m) == IF m <= 1 THEN 1 ELSE m * Factorial(m - 1)

RECURSIVE Binomial(_, _)
\* C(n, k) by Pascal's rule.
Binomial(n, k) ==
    IF k < 0 \/ k > n THEN 0
    ELSE IF k = 0 \/ k = n THEN 1
    ELSE Binomial(n - 1, k - 1) + Binomial(n - 1, k)

\* log of the rational C(n,k) * B(k+a, n-k+b) / B(a, b) for integers a, b >= 1,
\* with B(x, y) = (x-1)! (y-1)! / (x+y-1)!.
LogBetaBinomialMass(n, k, a, b) ==
    LSub(LogInt(Binomial(n, k) * Factorial(k + a - 1) * Factorial(n - k + b - 1)
                * Factorial(a + b - 1)),
         LogInt(Factorial(n + a + b - 1) * Factorial(a - 1) * Factorial(b - 1)))

ParamAt(t, idx) == t.data[BroadcastIndex(idx, t.shape)]

\* C9: BetaBinomial.log_prob(k), with n = total_count, a = concentration1 and
\* b = concentration0, is at every position with k an integer in 0..n the
\* logarithm of the exact rational C(n,k) * B(k+a, n-k+b) / B(a, b), the
\* Beta-Binomial marginal.
C9_LogProbIsBetaBinomialMass ==
    (inst.cls = "BetaBinomial" /\ ret.op = "log_prob" /\ ret.out.raised = "none")
    => \A idx \in Indices(LogProbShape) :
          LET h == ValueAt(ret.arg, idx)
              n == ParamAt(origin.total_count, idx)
              a == ParamAt(origin._beta.concentration1, idx)
              b == ParamAt(origin._beta.concentration0, idx)
          IN  (IsWhole(h) /\ 0 <= h /\ Whole(h) <= n)
              => ret.out.value.data[idx] = LogBetaBinomialMass(n, Whole(h), a, b)

\* C9 witness: a density returned at a position with 0 < k < n and the two
\* concentrations different.
C9_Witness ==
    /\ inst.cls = "BetaBinomial"
    /\ ret.op = "log_prob"
    /\ ret.out.raised = "none"
    /\ \E idx \in Indices(LogProbShape) :
          /\ IsWhole(ValueAt(ret.arg, idx))
          /\ 0 < Whole(ValueAt(ret.arg, idx))
          /\ Whole(ValueAt(ret.arg, idx)) < ParamAt(origin.total_count, idx)
          /\ ParamAt(origin._beta.concentration1, idx)
                /= ParamAt(origin._beta.concentration0, idx)
          /\ ret.out.value.data[idx].kind = "log_rational"

\* A call's outcome with a returned tensor broadcast to shape.
BroadcastOutcome(out, shape) ==
    IF out.raised = "none" THEN Returned(TensorExpand(out.value, shape)) ELSE out

\* C10: the parameters of an expanded instance equal, position by position,
\* the constructed instance's parameters broadcast to the new shape, and
\* log_prob(value) on the expanded instance equals log_prob(value) on the
\* constructed instance broadcast to the result's shape.
C10_ExpandInvariance ==
    /\ IF inst.cls = "BetaBinomial"
       THEN /\ inst._beta.concentration1
                  = TensorExpand(origin._beta.concentration1, inst._batch_shape)
            /\ inst._beta.concentration0
                  = TensorExpand(origin._beta.concentration0, inst._batch_shape)
            /\ inst.total_count = TensorExpand(origin.total_count, inst._batch_shape)
       ELSE /\ inst._gamma.concentration
                  = TensorExpand(origin._gamma.concentration, inst._batch_shape)
            /\ inst._gamma.rate = TensorExpand(origin._gamma.rate, inst._batch_shape)
    /\ ret.op = "log_prob"
          => ret.out = BroadcastOutcome(log_prob(origin, ret.arg), LogProbShape)

\* C10 witness: a GammaPoisson expanded to a shape with more positions returns
\* a tracked density for a tensor of values.
C10_Witness ==
    /\ inst.cls = "GammaPoisson"
    /\ Expanded
    /\ Numel(inst._batch_shape) > Numel(origin._batch_shape)
    /\ ret.op = "log_prob"
    /\ ret.arg.shape = inst._batch_shape
    /\ ret.out.raised = "none"
    /\ \A idx \in Indices(LogProbShape) : ret.out.value.data[idx].kind = "log_rational"

====
